---------------------------- MODULE Spec2Model ----------------------------
(***************************************************************************)
(* State-machine model of the input aggregation and frame lifecycle of    *)
(* src/src/hal_core.cpp (tac08 hardware abstraction layer).                *)
(*                                                                         *)
(* Program state: the four 8-bit input masks, the wheel delta, the touch   *)
(* table, the one-shot flags, the window geometry and the platform event   *)
(* queue.  One action per entry point of the file.  History variables      *)
(* (lastOp, held, prevTouch, frameEvs) only observe the program; no        *)
(* program action reads them.                                              *)
(***************************************************************************)
EXTENDS Integers, Sequences, FiniteSets, TLC

(***************************************************************************)
(* Bounds of the model.                                                    *)
(***************************************************************************)
\* longest platform event queue explored
MaxQueue == 2
\* touch coordinates are the normalized floats n / TouchDen, n \in 0..TouchDen
TouchDen == 2
\* most tracked keys held down at the same time
MaxHeld == 2
\* largest magnitude the accumulated wheel delta reaches
MaxWheel == 3

(***************************************************************************)
(* Program constants.                                                      *)
(***************************************************************************)
\* std::array<TouchInfo, 8> touchState
TouchSlots == 8
\* the axis deadzone of the SDL_JOYAXISMOTION branch
Deadzone == 1500
\* config::INIT_SCREEN_WIDTH / INIT_SCREEN_HEIGHT, the virtual resolution
INIT_SCREEN_WIDTH == 128
INIT_SCREEN_HEIGHT == 128
\* config::MAX_SCREEN_WIDTH / MAX_SCREEN_HEIGHT, the size of the streaming
\* texture, scaled down to a texture of a few pixels
MAX_SCREEN_WIDTH == 4
MAX_SCREEN_HEIGHT == 2

(***************************************************************************)
(* TouchInfo::State flags.  The enum lives in hal_core.h; the flags are    *)
(* independently OR-able bits, so a state is the set of flags that are on. *)
(***************************************************************************)
None == {}
Pressed == "Pressed"
JustPressed == "JustPressed"
JustReleased == "JustReleased"

VARIABLES
    keyState,           \* static uint8_t keyState
    joyState,           \* static uint8_t joyState
    hatState,           \* static uint8_t hatState
    simState,           \* static uint8_t simState
    mouseWheel,         \* static int mouseWheel
    touchState,         \* static std::array<TouchInfo, 8> touchState
    reload_requested,   \* static bool reload_requested
    debug_trace_state,  \* static bool debug_trace_state
    fullscreen,         \* SDL_WINDOW_FULLSCREEN_DESKTOP flag of sdlWin
    winx, winy,         \* SDL_GetWindowSize(sdlWin)
    screenWidth,        \* static int screenWidth
    screenHeight,       \* static int screenHeight
    queue,              \* the platform event queue read by SDL_PollEvent
    ret,                \* value returned by the last bool-returning call
    oob,                \* an element outside touchState[0..7] was accessed
    ms,                 \* the MouseState returned by the last INP_GetMouseState
    dr,                 \* the destination SDL_Rect of the last GFX_Flip
    thrown,             \* message of the last gfx_exception thrown, "none" before
    original_palette,   \* static std::array<pixel_t, 256> original_palette
    palette,            \* static std::array<pixel_t, 256> palette
    tex,                \* the pixels of sdlTex, tex[row][column]
    tinfo,              \* the TouchInfo returned by the last INP_GetTouchInfo
    lastOp,             \* history: the last call and the event it handled
    held,               \* history: keys whose most recent event was a key-down
    prevTouch,          \* history: slot states when the previous frame ended
    frameEvs,           \* history: finger events per slot since that moment
    wheelSum,           \* history: wheel y-deltas applied since the last read
    probe,              \* history: the virtual point the pointer was put on
    args                \* history: the arguments of the last palette, blit or query call

progVars == <<keyState, joyState, hatState, simState, mouseWheel, touchState,
              reload_requested, debug_trace_state, fullscreen, winx, winy,
              screenWidth, screenHeight, queue, ret, oob>>
\* what the query entry points hand back to the caller
outVars == <<ms, dr, thrown, tinfo>>
\* the palette tables
gfxVars == <<original_palette, palette, tex>>
histVars == <<lastOp, held, prevTouch, frameEvs, wheelSum, probe, args>>
vars == <<progVars, outVars, gfxVars, histVars>>

(***************************************************************************)
(* 8-bit mask arithmetic.                                                  *)
(***************************************************************************)
Pow2(n) == 2 ^ n

\* (state & (1 << bit)) != 0
TestBit(state, bit) == (state \div Pow2(bit)) % 2 = 1

\* a | b on uint8_t
RECURSIVE BitOrFrom(_, _, _)
BitOrFrom(a, b, bit) ==
    IF bit > 7 THEN 0
    ELSE (IF TestBit(a, bit) \/ TestBit(b, bit) THEN Pow2(bit) ELSE 0)
         + BitOrFrom(a, b, bit + 1)
BitOr(a, b) == BitOrFrom(a, b, 0)

\* a & ~(1 << bit) on uint8_t
BitClear(a, bit) == IF TestBit(a, bit) THEN a - Pow2(bit) ELSE a

\* faulty variant: the else branch that clears the bit is missing
set_state_bit_never_clears(state, bit, condition, value) ==
    IF condition /\ value THEN BitOr(state, Pow2(bit)) ELSE state

\* static inline void set_state_bit(uint8_t& state, uint8_t bit, bool condition, bool value)
set_state_bit(state, bit, condition, value) ==
    IF condition
    THEN IF value THEN BitOr(state, Pow2(bit)) ELSE BitClear(state, bit)
    ELSE state

(***************************************************************************)
(* Raw platform events (SDL_Event).  hatval is what SDL_JoystickGetHat     *)
(* answers while the event is handled.                                     *)
(***************************************************************************)
NoEvent == [type |-> "NONE", sym |-> "NONE", ctrl |-> FALSE, axis |-> 0,
            value |-> 0, hatval |-> {}, button |-> 0, state |-> FALSE,
            fingerId |-> 0, x |-> 0, y |-> 0, wheel |-> 0]

KeyEv(type, sym, ctrl) == [NoEvent EXCEPT !.type = type, !.sym = sym, !.ctrl = ctrl]
AxisEv(axis, value) == [NoEvent EXCEPT !.type = "JOYAXISMOTION", !.axis = axis, !.value = value]
HatEv(hatval) == [NoEvent EXCEPT !.type = "JOYHATMOTION", !.hatval = hatval]
ButtonEv(type, button, state) == [NoEvent EXCEPT !.type = type, !.button = button, !.state = state]
FingerEv(type, fingerId, x, y) == [NoEvent EXCEPT !.type = type, !.fingerId = fingerId, !.x = x, !.y = y]
WheelEv(y) == [NoEvent EXCEPT !.type = "MOUSEWHEEL", !.wheel = y]
QuitEv == [NoEvent EXCEPT !.type = "QUIT"]
OtherEv == [NoEvent EXCEPT !.type = "WINDOWEVENT"]


(***************************************************************************)
(* Coordinate mapper.  Window and virtual sizes are ints; the scale is the *)
(* double (double)a / (double)b.  A double quotient of two ints is kept as *)
(* the pair [a, b]; its value is the correctly rounded quotient            *)
(*     (a * 2^s + Rho(a, b)) / (b * 2^s),    s = MantissaBits - Exponent,  *)
(* where Rho is the rounding residual of the 53-bit significand.  Products *)
(* and quotients with ints are rounded to nearest once more, as the        *)
(* hardware does, before (int) truncates them toward zero.  All operands   *)
(* are far below 2^24, so a rounding can move a result across an integer   *)
(* only when the unrounded value is within 2^-29 of it, that is when the   *)
(* exact rational result is itself an integer.                             *)
(***************************************************************************)
\* (int)(a / b) for ints, b > 0
TruncDiv(a, b) == IF a >= 0 THEN a \div b ELSE -((-a) \div b)

\* fraction bits of the significand of a double
MantissaBits == 52

\* what (int) of an infinity or a NaN can give: INT_MIN (x86 cvttsd2si),
\* or the saturated INT_MAX / 0 (ARM fcvtzs)
IntOfNonFinite == {-2147483647 - 1, 0, 2147483647}

RECURSIVE ExponentUp(_, _, _)
ExponentUp(a, b, L) == IF a >= b * 2 ^ (L + 1) THEN ExponentUp(a, b, L + 1) ELSE L

RECURSIVE ExponentDown(_, _, _)
ExponentDown(a, b, j) == IF a * 2 ^ j >= b THEN -j ELSE ExponentDown(a, b, j + 1)

\* the binary exponent L of a / b: 2^L <= a / b < 2^(L+1), for a, b > 0
Exponent(a, b) == IF a >= b THEN ExponentUp(a, b, 0) ELSE ExponentDown(a, b, 1)

RECURSIVE ShiftMod(_, _, _)
\* (r * 2^n) % b, eight doublings at a time while that many remain
ShiftMod(r, n, b) ==
    IF n = 0 THEN r
    ELSE IF n >= 8 THEN ShiftMod((256 * r) % b, n - 8, b)
    ELSE ShiftMod((2 * r) % b, n - 1, b)

\* the rounding residual of (double)a / (double)b, round to nearest: negative
\* when the double lies below a / b, zero when a / b is a double
Rho(a, b) ==
    LET r == ShiftMod(a % b, MantissaBits - Exponent(a, b), b)
    IN  IF 2 * r < b THEN -r ELSE b - r

RECURSIVE FloorLog2(_, _)
\* k with 2^k <= n < 2^(k+1) (started with k = 0), n >= 1
FloorLog2(n, k) == IF n >= 2 ^ (k + 1) THEN FloorLog2(n, k + 1) ELSE k

\* k with 2^k < n <= 2^(k+1), n >= 1: the binade just below n
BinadeBelow(n) == IF n = 1 THEN -1 ELSE FloorLog2(n - 1, 0)

\* m * 2^e <= bound
LeScaled(m, e, bound) == IF e >= 0 THEN m * 2 ^ e <= bound ELSE m <= bound * 2 ^ (-e)

\* the double q * c for q = (double)a / (double)b and an int c > 0: its
\* integer part, and whether the double is that integer exactly
DblTimesInt(q, c) ==
    LET n1  == (c * q.a) \div q.b
        rho == Rho(q.a, q.b)
        L   == Exponent(q.a, q.b)
    IN  IF q.a = 0 THEN [floor |-> 0, exact |-> TRUE]
        ELSE IF (c * q.a) % q.b # 0 THEN [floor |-> n1, exact |-> FALSE]
        ELSE IF rho = 0 THEN [floor |-> n1, exact |-> TRUE]
        ELSE IF rho < 0
        THEN IF LeScaled(c * (-rho), 1 + L - BinadeBelow(n1), q.b)
             THEN [floor |-> n1, exact |-> TRUE]         \* rounds up to n1
             ELSE [floor |-> n1 - 1, exact |-> FALSE]    \* stays just below n1
        ELSE IF LeScaled(c * rho, 1 + L - FloorLog2(n1, 0), q.b)
             THEN [floor |-> n1, exact |-> TRUE]         \* rounds down to n1
             ELSE [floor |-> n1, exact |-> FALSE]        \* stays just above n1

\* p > d for such a product p and an int d
DblGreaterInt(p, d) == IF p.exact THEN p.floor > d ELSE p.floor >= d

\* (int)(x / q) for an int x >= 0 and q = (double)a / (double)b > 0
IntDivDbl(x, q) ==
    LET n0 == (x * q.b) \div q.a
    IN  IF (x * q.b) % q.a # 0 \/ n0 = 0 THEN n0
        ELSE IF Rho(q.a, q.b) <= 0 THEN n0
        ELSE IF LeScaled(n0 * Rho(q.a, q.b),
                         1 + Exponent(q.a, q.b) - BinadeBelow(n0), q.a)
             THEN n0                                     \* rounds up to n0
             ELSE n0 - 1                                 \* stays just below n0

\* the values (int)(x / scale) can take; x / 0.0 is an infinity or a NaN,
\* whose conversion to int is undefined
TruncQuotient(x, q) ==
    IF q.a = 0 THEN IntOfNonFinite
    ELSE {IF x >= 0 THEN IntDivDbl(x, q) ELSE -IntDivDbl(-x, q)}

\* SDL_Rect r and *scale for the current window and virtual size
getDisplayArea ==
    LET xscale == [a |-> winx, b |-> screenWidth]
        yscale == [a |-> winy, b |-> screenHeight]
    IN  IF DblGreaterInt(DblTimesInt(xscale, screenHeight), winy)
        THEN LET w == DblTimesInt(yscale, screenWidth).floor
             IN  [x |-> TruncDiv(winx, 2) - TruncDiv(w, 2), y |-> 0,
                  w |-> w, h |-> winy, scale |-> yscale]
        ELSE LET h == DblTimesInt(xscale, screenHeight).floor
             IN  [x |-> 0, y |-> TruncDiv(winy, 2) - TruncDiv(h, 2),
                  w |-> winx, h |-> h, scale |-> xscale]

\* faulty variant: the rectangle origin is not subtracted
scaleMouse_KeepsOrigin(x, y) ==
    TruncQuotient(x, getDisplayArea.scale) \X TruncQuotient(y, getDisplayArea.scale)

\* x -= r.x; y -= r.y; x = (int)(x / scale); y = (int)(y / scale): the set
\* of pairs the call can leave in (x, y)
scaleMouse(x, y) ==
    LET r == getDisplayArea
    IN  TruncQuotient(x - r.x, r.scale) \X TruncQuotient(y - r.y, r.scale)

(***************************************************************************)
(* Touch table.                                                            *)
(***************************************************************************)
SlotIds == 0 .. (TouchSlots - 1)

\* faulty variant: an up event assigns JustReleased instead of OR-ing it in
TouchFlagsOr_UpReplaces(state, type) ==
    IF type = "FINGERUP" THEN {JustReleased}
    ELSE state \cup (IF type = "FINGERDOWN" THEN {JustPressed, Pressed} ELSE {})
               \cup (IF type = "FINGERMOTION" THEN {Pressed} ELSE {})

\* the flags one finger event ORs into ti.state
TouchFlagsOr(state, type) ==
    state \cup (IF type = "FINGERDOWN" THEN {JustPressed, Pressed} ELSE {})
          \cup (IF type = "FINGERMOTION" THEN {Pressed} ELSE {})
          \cup (IF type = "FINGERUP" THEN {JustReleased} ELSE {})

\* the pairs (ti.x, ti.y) the conversion from normalized to virtual
\* coordinates can give
TouchPos(ev) ==
    scaleMouse(TruncDiv(ev.x * winx, TouchDen), TruncDiv(ev.y * winy, TouchDen))

\* the bound test of processTouchEvent: ev.fingerId < (int)touchState.size()
TouchIdAccepted(fingerId) == fingerId < TouchSlots

\* touchState[(int)ev.fingerId] with a negative index is undefined: the
\* write lands in front of the array, on padding the program never reads or
\* on the statics declared just before it (simState, mouseWheel), whichever
\* the build placed there.
OobTargets == {"nothing", "simState", "mouseWheel"}

OutOfRangeWrite(x) ==
    \E t \in OobTargets :
        /\ simState' = (IF t = "simState" THEN x % 256 ELSE simState)
        /\ mouseWheel' = (IF t = "mouseWheel" THEN x ELSE mouseWheel)
        /\ UNCHANGED <<keyState, joyState, hatState>>

\* faulty variant: the identifier is reduced modulo the table size
processTouchEvent_Modulo(ev) ==
    \E pos \in TouchPos(ev) :
        /\ touchState' =
              [touchState EXCEPT ![ev.fingerId % TouchSlots] =
                  [x |-> pos[1], y |-> pos[2],
                   state |-> TouchFlagsOr(touchState[ev.fingerId % TouchSlots].state,
                                          ev.type)]]
        /\ UNCHANGED <<keyState, joyState, hatState, simState, mouseWheel, oob>>

processTouchEvent(ev) ==
    IF TouchIdAccepted(ev.fingerId)
    THEN \E pos \in TouchPos(ev) :
         IF ev.fingerId \in SlotIds
         THEN /\ touchState' =
                    [touchState EXCEPT ![ev.fingerId] =
                        [x |-> pos[1], y |-> pos[2],
                         state |-> TouchFlagsOr(touchState[ev.fingerId].state, ev.type)]]
              /\ UNCHANGED <<keyState, joyState, hatState, simState, mouseWheel, oob>>
         ELSE /\ oob' = TRUE
              /\ OutOfRangeWrite(pos[1])
              /\ UNCHANGED touchState
    ELSE UNCHANGED <<touchState, keyState, joyState, hatState, simState,
                     mouseWheel, oob>>

\* faulty variant: JustPressed is not cleared at the end of the frame
FlushSlot_KeepsJustPressed(t) ==
    IF JustReleased \in t.state THEN [t EXCEPT !.state = None] ELSE t

\* one slot of flushTouchEvents
FlushSlot(t) ==
    LET s1 == IF JustPressed \in t.state THEN t.state \ {JustPressed} ELSE t.state
    IN  [t EXCEPT !.state = IF JustReleased \in s1 THEN None ELSE s1]

flushTouchEvents == touchState' = [n \in SlotIds |-> FlushSlot(touchState[n])]

\* INP_GetTouchMask
INP_GetTouchMask ==
    LET RECURSIVE MaskFrom(_)
        MaskFrom(n) == IF n >= TouchSlots THEN 0
                       ELSE (IF touchState[n].state # None THEN Pow2(n) ELSE 0)
                            + MaskFrom(n + 1)
    IN  MaskFrom(0)

\* what reading touchState[idx] with idx outside 0..7 can hand back: the
\* bytes next to the table, read as a TouchInfo
OutOfRangeRead ==
    [x : {0, simState, mouseWheel}, y : {0}, state : {None, {Pressed}}]

\* TouchInfo INP_GetTouchInfo(int idx); idx < 0 && idx >= 8 holds for no idx,
\* so the else branch is taken for every idx
INP_GetTouchInfo(idx) ==
    IF idx < 0 /\ idx >= TouchSlots
    THEN tinfo' = [x |-> 0, y |-> 0, state |-> None] /\ UNCHANGED oob
    ELSE IF idx \in SlotIds
         THEN tinfo' = touchState[idx] /\ UNCHANGED oob
         ELSE tinfo' \in OutOfRangeRead /\ oob' = TRUE

(***************************************************************************)
(* Palette tables.  pixel_t is a 16-bit RGB565 pixel (SDL_PIXELFORMAT_     *)
(* RGB565); the registry of hal_palette.h holds 256-entry tables of        *)
(* 0xRRGGBB values.                                                        *)
(***************************************************************************)
\* indices of std::array<pixel_t, 256>
PaletteIndices == 0 .. 255

\* SDL_MapRGB to RGB565: the top 5, 6 and 5 bits of r, g and b
GFX_GetPixel(r, g, b) == (r \div 8) * 2048 + (g \div 4) * 32 + (b \div 8)

\* the sixteen PICO-8 colours as 0xRRGGBB values
Pico8Colours ==
    <<0, 1911635, 8267091, 34641, 11227702, 6248271, 12764103, 16773608,
      16711757, 16753408, 16772135, 58422, 2731519, 8615580, 16742312, 16764074>>

\* the names and tables of the static registry
PaletteRegistry ==
    [pico8 |-> [size |-> 256,
                pal |-> [i \in PaletteIndices |-> Pico8Colours[(i % 16) + 1]]]]

GFX_GetPaletteInfo(name) == PaletteRegistry[name]

\* the pixel of one registry entry p: its three bytes through GFX_GetPixel
EntryPixel(p) == GFX_GetPixel((p \div 65536) % 256, (p \div 256) % 256, p % 256)

\* void GFX_SelectPalette(const std::string& name)
GFX_SelectPalette(name) ==
    LET pal == GFX_GetPaletteInfo(name)
    IN  /\ original_palette' =
              [i \in PaletteIndices |->
                  IF i < pal.size THEN EntryPixel(pal.pal[i]) ELSE original_palette[i]]
        /\ palette' =
              [i \in PaletteIndices |->
                  IF i < pal.size THEN EntryPixel(pal.pal[i]) ELSE palette[i]]

\* void GFX_RestorePalette()
GFX_RestorePalette ==
    /\ palette' = original_palette
    /\ UNCHANGED original_palette

\* faulty variant: restoring one index restores the whole table
GFX_RestorePaletteIndex_All(i) ==
    /\ palette' = original_palette
    /\ UNCHANGED original_palette

\* void GFX_RestorePaletteIndex(uint8_t i)
GFX_RestorePaletteIndex(i) ==
    /\ palette' = [palette EXCEPT ![i] = original_palette[i]]
    /\ UNCHANGED original_palette

\* void GFX_SetPaletteIndex(uint8_t i, uint8_t r, uint8_t g, uint8_t b)
GFX_SetPaletteIndex(i, r, g, b) ==
    /\ palette' = [palette EXCEPT ![i] = GFX_GetPixel(r, g, b)]
    /\ UNCHANGED original_palette

(***************************************************************************)
(* Renderer: copying the back buffer into the streaming texture.           *)
(***************************************************************************)
TexCols == 0 .. MAX_SCREEN_WIDTH - 1
TexRows == 0 .. MAX_SCREEN_HEIGHT - 1

\* pitch / sizeof(pixel_t): the texture rows are packed
Stride == MAX_SCREEN_WIDTH

\* the columns one run of the inner loop touches: x and, after the x++ in
\* the body, x + 1, for x = 0, 2, 4, ... while x < buffer_w
LoopColumns(buffer_w) ==
    UNION {{x, x + 1} : x \in {c \in 0 .. buffer_w - 1 : c % 2 = 0}}

\* buffer[i] of a buffer of Len(buffer) bytes; past its end the read is
\* outside the array and yields whatever byte lies there
SourceByte(buffer, i, beyond) == IF i < Len(buffer) THEN buffer[i + 1] ELSE beyond

\* the bytes a read past the end of the buffer is taken to yield
BytesBeyond == {0, 15}

\* void GFX_CopyBackBuffer(uint8_t* buffer, int buffer_w, int buffer_h)
GFX_CopyBackBuffer(buffer, buffer_w, buffer_h) ==
    \/ /\ thrown' = "SDL_LockTexture Error: "       \* res < 0
       /\ UNCHANGED tex
    \/ /\ \E beyond \in BytesBeyond :
             tex' = [y \in TexRows |-> [x \in TexCols |->
                        IF y < buffer_h /\ x \in LoopColumns(buffer_w)
                        THEN palette[SourceByte(buffer, y * buffer_w + x, beyond)]
                        ELSE tex[y][x]]]
       /\ UNCHANGED thrown

(***************************************************************************)
(* Input aggregator.                                                       *)
(***************************************************************************)
geometry == <<winx, winy, screenWidth, screenHeight>>

IsKeyDown(ev, sym) == ev.type = "KEYDOWN" /\ ev.sym = sym

\* the nine set_state_bit calls of the key branch, in order
KeyBranch(state, ev) ==
    LET down == ev.type = "KEYDOWN"
        s0 == set_state_bit(state, 0, ev.sym = "LEFT", down)
        s1 == set_state_bit(s0, 1, ev.sym = "RIGHT", down)
        s2 == set_state_bit(s1, 2, ev.sym = "UP", down)
        s3 == set_state_bit(s2, 3, ev.sym = "DOWN", down)
        s4 == set_state_bit(s3, 4, ev.sym = "z", down)
        s5 == set_state_bit(s4, 5, ev.sym = "x", down)
        s6 == set_state_bit(s5, 6, ev.sym = "p", down)
        s7 == set_state_bit(s6, 6, ev.sym = "RETURN", down)
    IN  set_state_bit(s7, 7, ev.sym = "ESCAPE", down)

\* faulty variant: a value exactly at the deadzone already sets the bit
AxisBranch_AtDeadzone(state, ev) ==
    LET s0 == set_state_bit(state, 0, ev.axis = 0, ev.value <= -Deadzone)
        s1 == set_state_bit(s0, 1, ev.axis = 0, ev.value >= Deadzone)
        s2 == set_state_bit(s1, 2, ev.axis = 1, ev.value <= -Deadzone)
    IN  set_state_bit(s2, 3, ev.axis = 1, ev.value >= Deadzone)

\* the four set_state_bit calls of the axis branch
AxisBranch(state, ev) ==
    LET s0 == set_state_bit(state, 0, ev.axis = 0, ev.value < -Deadzone)
        s1 == set_state_bit(s0, 1, ev.axis = 0, ev.value > Deadzone)
        s2 == set_state_bit(s1, 2, ev.axis = 1, ev.value < -Deadzone)
    IN  set_state_bit(s2, 3, ev.axis = 1, ev.value > Deadzone)

\* the four set_state_bit calls of the hat branch
HatBranch(state, ev) ==
    LET s0 == set_state_bit(state, 0, TRUE, "LEFT" \in ev.hatval)
        s1 == set_state_bit(s0, 1, TRUE, "RIGHT" \in ev.hatval)
        s2 == set_state_bit(s1, 2, TRUE, "UP" \in ev.hatval)
    IN  set_state_bit(s2, 3, TRUE, "DOWN" \in ev.hatval)

\* the three set_state_bit calls of the button branch
ButtonBranch(state, ev) ==
    LET s0 == set_state_bit(state, 4, ev.button = 1, ev.state)
        s1 == set_state_bit(s0, 5, ev.button = 0, ev.state)
    IN  set_state_bit(s1, 6, ev.button = 7, ev.state)

\* faulty variant: Ctrl+Q does not stop processing
QuitResult_Continues == TRUE

\* the value INP_ProcessInputEvents returns on the Ctrl+Q path

QuitResult == FALSE

\* bool INP_ProcessInputEvents(const SDL_Event& ev)
INP_ProcessInputEvents(ev) ==
    /\ UNCHANGED geometry
    /\ IF IsKeyDown(ev, "F11")
       THEN /\ fullscreen' = ~fullscreen                \* GFX_ToggleFullScreen
            /\ ret' = TRUE
            /\ UNCHANGED <<keyState, joyState, hatState, simState, mouseWheel,
                           touchState, reload_requested, debug_trace_state, oob>>
       ELSE IF IsKeyDown(ev, "q") /\ ev.ctrl
       THEN /\ ret' = QuitResult
            /\ UNCHANGED <<keyState, joyState, hatState, simState, mouseWheel,
                           touchState, reload_requested, debug_trace_state,
                           fullscreen, oob>>
       ELSE IF IsKeyDown(ev, "t") /\ ev.ctrl
       THEN /\ debug_trace_state' = ~debug_trace_state
            /\ ret' = TRUE
            /\ UNCHANGED <<keyState, joyState, hatState, simState, mouseWheel,
                           touchState, reload_requested, fullscreen, oob>>
       ELSE IF IsKeyDown(ev, "r") /\ ev.ctrl
       THEN /\ reload_requested' = TRUE
            /\ ret' = TRUE
            /\ UNCHANGED <<keyState, joyState, hatState, simState, mouseWheel,
                           touchState, debug_trace_state, fullscreen, oob>>
       ELSE /\ ret' = TRUE
            /\ UNCHANGED <<reload_requested, debug_trace_state, fullscreen>>
            /\ IF ev.type \in {"KEYDOWN", "KEYUP"}
               THEN /\ keyState' = KeyBranch(keyState, ev)
                    /\ UNCHANGED <<joyState, hatState, simState, mouseWheel,
                                   touchState, oob>>
               ELSE IF ev.type = "MOUSEWHEEL"
               THEN /\ mouseWheel' = mouseWheel + ev.wheel
                    /\ UNCHANGED <<keyState, joyState, hatState, simState,
                                   touchState, oob>>
               ELSE IF ev.type = "JOYAXISMOTION"
               THEN /\ joyState' = AxisBranch(joyState, ev)
                    /\ UNCHANGED <<keyState, hatState, simState, mouseWheel,
                                   touchState, oob>>
               ELSE IF ev.type = "JOYHATMOTION"
               THEN /\ hatState' = HatBranch(hatState, ev)
                    /\ UNCHANGED <<keyState, joyState, simState, mouseWheel,
                                   touchState, oob>>
               ELSE IF ev.type \in {"JOYBUTTONDOWN", "JOYBUTTONUP"}
               THEN /\ joyState' = ButtonBranch(joyState, ev)
                    /\ UNCHANGED <<keyState, hatState, simState, mouseWheel,
                                   touchState, oob>>
               ELSE IF ev.type \in {"FINGERDOWN", "FINGERMOTION", "FINGERUP"}
               THEN processTouchEvent(ev)
               ELSE UNCHANGED <<keyState, joyState, hatState, simState,
                                mouseWheel, touchState, oob>>

\* faulty variant: the simulated mask is left out
INP_GetInputState_NoSim == BitOr(BitOr(keyState, joyState), hatState)

\* uint8_t INP_GetInputState()
INP_GetInputState == BitOr(BitOr(BitOr(keyState, joyState), hatState), simState)

\* bool DEBUG_ReloadRequested()
DEBUG_ReloadRequested == reload_requested

\* ms.buttons: SDL_BUTTON(n) is bit n-1 of b (1 left, 2 middle, 3 right);
\* left becomes 1, right 2, middle 4
MouseButtons(b) ==
    (IF TestBit(b, 0) THEN 1 ELSE 0) + (IF TestBit(b, 2) THEN 2 ELSE 0)
      + (IF TestBit(b, 1) THEN 4 ELSE 0)

\* void INP_SetSimState(uint8_t state)
INP_SetSimState(state) ==
    /\ simState' = state
    /\ UNCHANGED <<keyState, joyState, hatState, mouseWheel, touchState,
                   reload_requested, debug_trace_state, fullscreen, geometry,
                   queue, ret, oob>>

\* faulty variant: the read leaves the accumulated delta in place
INP_GetMouseState_KeepsWheel(mx, my, b) ==
    /\ \E pos \in scaleMouse(mx, my) :
            ms' = [x |-> pos[1], y |-> pos[2],
                   buttons |-> MouseButtons(b), wheel |-> mouseWheel]
    /\ UNCHANGED <<keyState, joyState, hatState, simState, mouseWheel, touchState,
                   reload_requested, debug_trace_state, fullscreen, geometry,
                   queue, ret, oob>>

\* MouseState INP_GetMouseState(); mx, my, b are what SDL_GetMouseState
\* reports: the pointer position in window pixels and the button mask
INP_GetMouseState(mx, my, b) ==
    /\ \E pos \in scaleMouse(mx, my) :
            ms' = [x |-> pos[1], y |-> pos[2],
                   buttons |-> MouseButtons(b), wheel |-> mouseWheel]
    /\ mouseWheel' = 0
    /\ UNCHANGED <<keyState, joyState, hatState, simState, touchState,
                   reload_requested, debug_trace_state, fullscreen, geometry,
                   queue, ret, oob>>

\* void GFX_SetBackBufferSize(int x, int y)
GFX_SetBackBufferSize(x, y) ==
    /\ screenWidth' = x
    /\ screenHeight' = y
    /\ UNCHANGED <<keyState, joyState, hatState, simState, mouseWheel, touchState,
                   reload_requested, debug_trace_state, fullscreen, winx, winy,
                   queue, ret, oob>>

\* void GFX_Flip(): the rectangle handed to SDL_RenderCopy
GFX_Flip ==
    /\ \E r \in {getDisplayArea} : dr' = [x |-> r.x, y |-> r.y, w |-> r.w, h |-> r.h]
    /\ UNCHANGED progVars

\* the size SDL_GetWindowSize reports changes
WindowResized(w, h) ==
    /\ winx' = w
    /\ winy' = h
    /\ UNCHANGED <<keyState, joyState, hatState, simState, mouseWheel, touchState,
                   reload_requested, debug_trace_state, fullscreen, screenWidth,
                   screenHeight, queue, ret, oob>>

\* faulty variant: the reload flag survives the start of the frame
HAL_StartFrame_KeepsReload ==
    /\ simState' = 0
    /\ UNCHANGED <<keyState, joyState, hatState, mouseWheel, touchState,
                   reload_requested, debug_trace_state, fullscreen, geometry,
                   queue, ret, oob>>

\* void HAL_StartFrame()
HAL_StartFrame ==
    /\ simState' = 0
    /\ reload_requested' = FALSE
    /\ UNCHANGED <<keyState, joyState, hatState, mouseWheel, touchState,
                   debug_trace_state, fullscreen, geometry, queue, ret, oob>>

\* void HAL_EndFrame()
HAL_EndFrame ==
    /\ flushTouchEvents
    /\ UNCHANGED <<keyState, joyState, hatState, simState, mouseWheel,
                   reload_requested, debug_trace_state, fullscreen, geometry,
                   queue, ret, oob>>

\* bool EVT_ProcessEvents(): the loop body returns on its first iteration
EVT_ProcessEvents ==
    IF queue = <<>>
    THEN /\ ret' = TRUE
         /\ UNCHANGED <<keyState, joyState, hatState, simState, mouseWheel,
                        touchState, reload_requested, debug_trace_state,
                        fullscreen, geometry, queue, oob>>
    ELSE /\ queue' = Tail(queue)                        \* SDL_PollEvent(&e)
         /\ IF Head(queue).type = "QUIT"
            THEN /\ ret' = FALSE
                 /\ UNCHANGED <<keyState, joyState, hatState, simState,
                                mouseWheel, touchState, reload_requested,
                                debug_trace_state, fullscreen, geometry, oob>>
            ELSE INP_ProcessInputEvents(Head(queue))

\* the platform appends an event to its queue
PostEvent(ev) ==
    /\ Len(queue) < MaxQueue
    /\ queue' = Append(queue, ev)
    /\ UNCHANGED <<keyState, joyState, hatState, simState, mouseWheel,
                   touchState, reload_requested, debug_trace_state,
                   fullscreen, geometry, ret, oob>>

(***************************************************************************)
(* Initial state: the statics as the file initializes them, a window of    *)
(* one of the explored sizes, an empty event queue.                        *)
(***************************************************************************)
WinSizes == {<<640, 480>>}

NoOp == [op |-> "none", ev |-> NoEvent]

InitStatics ==
    /\ keyState = 0 /\ joyState = 0 /\ hatState = 0 /\ simState = 0
    /\ mouseWheel = 0
    /\ touchState = [n \in SlotIds |-> [x |-> 0, y |-> 0, state |-> None]]
    /\ reload_requested = FALSE
    /\ debug_trace_state = FALSE
    /\ fullscreen = FALSE
    /\ screenWidth = INIT_SCREEN_WIDTH
    /\ screenHeight = INIT_SCREEN_HEIGHT
    /\ queue = <<>>
    /\ ret = TRUE
    /\ oob = FALSE
    /\ ms = [x |-> 0, y |-> 0, buttons |-> 0, wheel |-> 0]
    /\ dr = [x |-> 0, y |-> 0, w |-> 0, h |-> 0]
    /\ thrown = "none"
    /\ original_palette = [i \in PaletteIndices |-> 0]
    /\ palette = [i \in PaletteIndices |-> 0]
    /\ tex = [y \in TexRows |-> [x \in TexCols |-> 0]]
    /\ tinfo = [x |-> 0, y |-> 0, state |-> None]

InitProg == InitStatics /\ \E sz \in WinSizes : winx = sz[1] /\ winy = sz[2]

TrackedKeys == {"LEFT", "RIGHT", "UP", "DOWN", "z", "x", "p", "RETURN", "ESCAPE"}

InitHist ==
    /\ lastOp = NoOp
    /\ held = {}
    /\ prevTouch = [n \in SlotIds |-> None]
    /\ frameEvs = [n \in SlotIds |-> {}]
    /\ wheelSum = 0
    /\ probe = <<0, 0>>
    /\ args = <<>>

Init == InitProg /\ InitHist

(***************************************************************************)
(* History.  Observe records what a call just did; it reads the program    *)
(* state and writes only the history variables.                            *)
(***************************************************************************)
FingerTypes == {"FINGERDOWN", "FINGERMOTION", "FINGERUP"}

IsFingerEv(ev) == ev.type \in FingerTypes

Record(op, ev) ==
    /\ lastOp' = [op |-> op, ev |-> ev]
    /\ held' = IF ev.sym \in TrackedKeys /\ ev.type = "KEYDOWN" THEN held \cup {ev.sym}
               ELSE IF ev.sym \in TrackedKeys /\ ev.type = "KEYUP" THEN held \ {ev.sym}
               ELSE held
    /\ prevTouch' = IF op = "HAL_EndFrame"
                    THEN [n \in SlotIds |-> touchState[n].state]
                    ELSE prevTouch
    /\ frameEvs' = IF op = "HAL_EndFrame" THEN [n \in SlotIds |-> {}]
                   ELSE IF IsFingerEv(ev) /\ ev.fingerId \in SlotIds
                   THEN [frameEvs EXCEPT ![ev.fingerId] = @ \cup {ev.type}]
                   ELSE frameEvs
    /\ wheelSum' = IF op = "INP_GetMouseState" THEN 0
                   ELSE IF ev.type = "MOUSEWHEEL" /\ op # "post"
                   THEN wheelSum + ev.wheel
                   ELSE wheelSum

Observe(op, ev) == Record(op, ev) /\ UNCHANGED probe /\ args' = <<>>

\* a call with plain arguments and no event
ObserveArgs(op, a) == Record(op, NoEvent) /\ UNCHANGED probe /\ args' = a

(***************************************************************************)
(* The calls the host runtime makes.                                       *)
(***************************************************************************)
CallProcessInputEvents(ev) ==
    /\ INP_ProcessInputEvents(ev)
    /\ UNCHANGED <<queue, outVars, gfxVars>>
    /\ Observe("INP_ProcessInputEvents", ev)

CallProcessEvents ==
    /\ EVT_ProcessEvents
    /\ UNCHANGED <<outVars, gfxVars>>
    /\ Observe("EVT_ProcessEvents", IF queue = <<>> THEN NoEvent ELSE Head(queue))

CallStartFrame ==
    HAL_StartFrame /\ UNCHANGED <<outVars, gfxVars>> /\ Observe("HAL_StartFrame", NoEvent)

CallEndFrame ==
    HAL_EndFrame /\ UNCHANGED <<outVars, gfxVars>> /\ Observe("HAL_EndFrame", NoEvent)

CallSetSimState(state) ==
    INP_SetSimState(state) /\ UNCHANGED <<outVars, gfxVars>> /\ Observe("INP_SetSimState", NoEvent)

CallGetMouseState(mx, my, b) ==
    INP_GetMouseState(mx, my, b) /\ UNCHANGED <<dr, thrown, tinfo, gfxVars>>
        /\ Observe("INP_GetMouseState", NoEvent)

CallFlip == GFX_Flip /\ UNCHANGED <<ms, thrown, tinfo, gfxVars>> /\ Observe("GFX_Flip", NoEvent)

CallSetBackBufferSize(x, y) ==
    GFX_SetBackBufferSize(x, y) /\ UNCHANGED <<outVars, gfxVars>>
        /\ Observe("GFX_SetBackBufferSize", NoEvent)

CallSelectPalette(name) ==
    GFX_SelectPalette(name) /\ UNCHANGED <<progVars, outVars, tex>>
        /\ ObserveArgs("GFX_SelectPalette", <<name>>)

CallRestorePalette ==
    GFX_RestorePalette /\ UNCHANGED <<progVars, outVars, tex>>
        /\ ObserveArgs("GFX_RestorePalette", <<>>)

CallRestorePaletteIndex(i) ==
    GFX_RestorePaletteIndex(i) /\ UNCHANGED <<progVars, outVars, tex>>
        /\ ObserveArgs("GFX_RestorePaletteIndex", <<i>>)

CallSetPaletteIndex(i, r, g, b) ==
    GFX_SetPaletteIndex(i, r, g, b) /\ UNCHANGED <<progVars, outVars, tex>>
        /\ ObserveArgs("GFX_SetPaletteIndex", <<i, r, g, b>>)

CallGetTouchInfo(idx) ==
    INP_GetTouchInfo(idx)
        /\ UNCHANGED <<keyState, joyState, hatState, simState, mouseWheel, touchState,
                       reload_requested, debug_trace_state, fullscreen, winx, winy,
                       screenWidth, screenHeight, queue, ret>>
        /\ UNCHANGED <<ms, dr, thrown, gfxVars>>
        /\ ObserveArgs("INP_GetTouchInfo", <<idx>>)

CallCopyBackBuffer(buffer, w, h) ==
    GFX_CopyBackBuffer(buffer, w, h)
        /\ UNCHANGED <<progVars, ms, dr, tinfo, original_palette, palette>>
        /\ ObserveArgs("GFX_CopyBackBuffer", <<buffer, w, h>>)

\* the user or the window manager resizes the window
Resize(w, h) ==
    WindowResized(w, h) /\ UNCHANGED <<outVars, gfxVars>> /\ Observe("resize", NoEvent)

\* the platform queues an event; nothing has handled it yet
Post(ev) ==
    /\ PostEvent(ev)
    /\ lastOp' = [op |-> "post", ev |-> ev]
    /\ UNCHANGED <<held, prevTouch, frameEvs, wheelSum, probe, args, outVars, gfxVars>>

(***************************************************************************)
(* Keyboard: every key event the handler distinguishes, and frame starts.  *)
(***************************************************************************)
Keys == TrackedKeys \cup {"F11", "q", "t", "r", "a"}

\* keys also pressed together with Ctrl
CtrlKeys == {"q", "t", "r", "p"}

KeyEvents == {KeyEv(t, k, FALSE) : t \in {"KEYDOWN", "KEYUP"}, k \in Keys}
             \cup {KeyEv(t, k, TRUE) : t \in {"KEYDOWN", "KEYUP"}, k \in CtrlKeys}

\* the user holds at most MaxHeld of the tracked keys at once
KeyboardStep ==
    \E ev \in KeyEvents :
        /\ (ev.type = "KEYDOWN" /\ ev.sym \in TrackedKeys)
              => Cardinality(held \cup {ev.sym}) <= MaxHeld
        /\ CallProcessInputEvents(ev)

NextKeys == KeyboardStep \/ CallStartFrame

SpecKeys == Init /\ [][NextKeys]_vars

\* the same keyboard when every key-up of a tracked key follows its key-down
\* (a key is released only while it is held)
HeldKeyboardStep ==
    \E ev \in KeyEvents :
        /\ (ev.type = "KEYDOWN" /\ ev.sym \in TrackedKeys)
              => Cardinality(held \cup {ev.sym}) <= MaxHeld
        /\ (ev.type = "KEYUP" /\ ev.sym \in TrackedKeys) => ev.sym \in held
        /\ CallProcessInputEvents(ev)

NextKeysHeld == HeldKeyboardStep \/ CallStartFrame

SpecKeysHeld == Init /\ [][NextKeysHeld]_vars

(***************************************************************************)
(* Touch: finger events for two slots of the table and for identifiers     *)
(* outside it, and frame boundaries.                                       *)
(***************************************************************************)
FingerIds == {0, 7, 8}

TouchCoords == {<<TouchDen, 1>>}

FingerEvents == {FingerEv(t, f, c[1], c[2]) : t \in FingerTypes, f \in FingerIds, c \in TouchCoords}

FingerStep == \E ev \in FingerEvents : CallProcessInputEvents(ev)

NextTouch == FingerStep \/ CallEndFrame \/ CallStartFrame

SpecTouch == Init /\ [][NextTouch]_vars

(***************************************************************************)
(* Touch identifiers around the ends of the table: below it, inside it,    *)
(* above it.                                                               *)
(***************************************************************************)
RangeFingerIds == {-1, 0, 8}

RangeCoords == {<<0, 0>>, <<TouchDen, 1>>}

RangeFingerEvents ==
    {FingerEv(t, f, c[1], c[2]) : t \in FingerTypes, f \in RangeFingerIds, c \in RangeCoords}

RangeFingerStep == \E ev \in RangeFingerEvents : CallProcessInputEvents(ev)

NextTouchRange == RangeFingerStep \/ CallEndFrame

SpecTouchRange == Init /\ [][NextTouchRange]_vars

(***************************************************************************)
(* Claims about the touch table.                                           *)
(***************************************************************************)
SlotState(n) == touchState[n].state

\* C1: a slot that had JustPressed when frame N ended does not have it in
\* frame N+1 as long as no new down event arrives (motion events do not bring
\* it back); a slot that had Pressed and no JustReleased when frame N ended
\* (no up event yet) still has Pressed in frame N+1; a slot that had
\* JustReleased when frame N ended is None in frame N+1 while no event
\* arrives for it.
C1_EdgeFlagsLastOneFrame ==
    \A n \in SlotIds :
        /\ (JustPressed \in prevTouch[n] /\ "FINGERDOWN" \notin frameEvs[n])
              => JustPressed \notin SlotState(n)
        /\ (Pressed \in prevTouch[n] /\ JustReleased \notin prevTouch[n])
              => Pressed \in SlotState(n)
        /\ (JustReleased \in prevTouch[n] /\ frameEvs[n] = {})
              => SlotState(n) = None

\* C1 witness: in the frame after a press on one slot and a release on
\* another, the first has received a motion event and is plain Pressed, the
\* second has received nothing and is None.
C1_Witness ==
    \E n, m \in SlotIds :
        /\ JustPressed \in prevTouch[n] /\ frameEvs[n] = {"FINGERMOTION"}
        /\ SlotState(n) = {Pressed}
        /\ JustReleased \in prevTouch[m] /\ frameEvs[m] = {}
        /\ SlotState(m) = None

\* C2 as stated: every slot holds one of the four states None,
\* JustPressed|Pressed, Pressed, JustReleased, and moves only along the cycle
\* None -> JustPressed|Pressed -> Pressed -> JustReleased -> None.
C2_FourStates ==
    \A n \in SlotIds :
        SlotState(n) \in {None, {JustPressed, Pressed}, {Pressed}, {JustReleased}}

C2_CycleStep ==
    \A n \in SlotIds :
        \/ SlotState(n)' = SlotState(n)
        \/ <<SlotState(n), SlotState(n)'>> \in
              { <<None, {JustPressed, Pressed}>>, <<{JustPressed, Pressed}, {Pressed}>>,
                <<{Pressed}, {JustReleased}>>, <<{JustReleased}, None>> }

C2_Original == [](C2_FourStates) /\ [][C2_CycleStep]_vars

\* C2 amended: in every slot JustPressed is never set without Pressed (so
\* the state is None, Pressed, JustPressed|Pressed, JustReleased,
\* Pressed|JustReleased or JustPressed|Pressed|JustReleased); a finger event
\* only adds flags to the slot, and endFrame takes a slot holding
\* JustReleased to None and otherwise only clears JustPressed.
C2_FlagsConsistent ==
    \A n \in SlotIds : JustPressed \in SlotState(n) => Pressed \in SlotState(n)

C2_FlagStep ==
    \A n \in SlotIds :
        \/ SlotState(n) \subseteq SlotState(n)'
        \/ JustReleased \in SlotState(n) /\ SlotState(n)' = None
        \/ JustReleased \notin SlotState(n) /\ SlotState(n)' = SlotState(n) \ {JustPressed}

C2_FlagLifecycle == [](C2_FlagsConsistent) /\ [][C2_FlagStep]_vars

\* C2 witness: an up event on a pressed slot leaves Pressed and JustReleased
\* set together.
C2_Witness ==
    \E n \in SlotIds :
        /\ SlotState(n) = {Pressed, JustReleased}
        /\ lastOp.ev.type = "FINGERUP" /\ lastOp.ev.fingerId = n

\* C10: a finger event whose identifier is outside 0..7 changes neither the
\* touch table nor the input masks, accesses no element outside the table,
\* and processing returns true.
IsOutOfRangeTouch(op) ==
    /\ op.op = "INP_ProcessInputEvents"
    /\ IsFingerEv(op.ev)
    /\ op.ev.fingerId \notin SlotIds

C10_OutOfRangeDropped ==
    [][IsOutOfRangeTouch(lastOp')
         => /\ UNCHANGED <<touchState, keyState, joyState, hatState, simState>>
            /\ ~oob'
            /\ ret']_vars

(***************************************************************************)
(* Claims about the keyboard mask and the reload flag.                     *)
(***************************************************************************)
\* C3: keyboard-mask bit 6 is set exactly when at least one of the two keys
\* that drive it (p, RETURN) is currently held.
C3_SharedBitIsOr ==
    TestBit(keyState, 6) <=> ("p" \in held \/ "RETURN" \in held)

\* the bit each single-bit key drives
SingleKeyBit ==
    [k \in {"LEFT", "RIGHT", "UP", "DOWN", "z", "x", "ESCAPE"} |->
        CASE k = "LEFT" -> 0 [] k = "RIGHT" -> 1 [] k = "UP" -> 2 [] k = "DOWN" -> 3
          [] k = "z" -> 4 [] k = "x" -> 5 [] k = "ESCAPE" -> 7]

\* C4: for each of left, right, up, down, z, x, escape, the key's mask bit is
\* set exactly when the most recent event of that key was a key-down.
C4_BitFollowsLastEvent ==
    \A k \in DOMAIN SingleKeyBit :
        TestBit(keyState, SingleKeyBit[k]) <=> k \in held

\* C4 witness: z was just released and its bit is clear while left, pressed
\* earlier and pressed again, keeps its bit.
C4_Witness ==
    /\ lastOp.ev = KeyEv("KEYUP", "z", FALSE)
    /\ ~TestBit(keyState, 4)
    /\ "LEFT" \in held /\ TestBit(keyState, 0)

IsCtrlRDown(op) ==
    /\ op.op \in {"INP_ProcessInputEvents", "EVT_ProcessEvents"}
    /\ op.ev.type = "KEYDOWN" /\ op.ev.sym = "r" /\ op.ev.ctrl

\* C7: the reload flag is true after a Ctrl+R key-down, false after
\* beginFrame, and no other call changes it.
C7_ReloadStep ==
    /\ IsCtrlRDown(lastOp') => DEBUG_ReloadRequested'
    /\ lastOp'.op = "HAL_StartFrame" => ~DEBUG_ReloadRequested'
    /\ DEBUG_ReloadRequested' # DEBUG_ReloadRequested
          => (IsCtrlRDown(lastOp') \/ lastOp'.op = "HAL_StartFrame")

C7_ReloadOneShot == [][C7_ReloadStep]_vars

\* C7 witness: the flag set by Ctrl+R is still set after a later, unrelated
\* key event of the same frame.
C7_Witness ==
    /\ DEBUG_ReloadRequested
    /\ lastOp.ev = KeyEv("KEYDOWN", "r", FALSE)

(***************************************************************************)
(* The four masks together: one key, one axis and the hat driving bit 2,   *)
(* the simulated mask, and frame starts.                                   *)
(***************************************************************************)
MaskEvents ==
    {KeyEv(t, k, FALSE) : t \in {"KEYDOWN", "KEYUP"}, k \in {"UP", "LEFT"}}
    \cup {AxisEv(1, v) : v \in {-2000, 0, 2000}}
    \cup {HatEv(h) : h \in {{}, {"UP"}, {"UP", "LEFT"}}}

SimStates == {0, 4, 5}

MaskEventStep == \E ev \in MaskEvents : CallProcessInputEvents(ev)

SetSimStep == \E st \in SimStates : CallSetSimState(st)

NextMasks == MaskEventStep \/ SetSimStep \/ CallStartFrame

SpecMasks == Init /\ [][NextMasks]_vars

\* C6: every bit of getInputState() is the OR of that bit in the four
\* masks; a bit that is set in the simulated mask stays set in
\* getInputState() across every call other than beginFrame and
\* setSimulatedState, a key-up of the same bit included; beginFrame leaves
\* the simulated mask zero.
C6_IsOrOfMasks ==
    \A b \in 0 .. 7 :
        TestBit(INP_GetInputState, b) <=>
            (TestBit(keyState, b) \/ TestBit(joyState, b)
                \/ TestBit(hatState, b) \/ TestBit(simState, b))

C6_SimBitStep ==
    /\ lastOp'.op = "HAL_StartFrame" => simState' = 0
    /\ lastOp'.op \notin {"HAL_StartFrame", "INP_SetSimState"}
          => \A b \in 0 .. 7 : TestBit(simState, b) => TestBit(INP_GetInputState', b)

C6_CombinedMask == [](C6_IsOrOfMasks) /\ [][C6_SimBitStep]_vars

\* C6 witness: the key of bit 2 was just released, no physical source holds
\* bit 2, the simulated mask does, and the combined bit is set.
C6_Witness ==
    /\ lastOp.ev = KeyEv("KEYUP", "UP", FALSE)
    /\ "LEFT" \in held
    /\ ~TestBit(keyState, 2) /\ ~TestBit(joyState, 2) /\ ~TestBit(hatState, 2)
    /\ TestBit(simState, 2)
    /\ TestBit(INP_GetInputState, 2)

(***************************************************************************)
(* Joystick: axis values around the deadzone on three axes, and buttons.   *)
(***************************************************************************)
AxisValues == {-32768, -2000, -1501, -1500, 0, 1500, 1501, 32767}

JoyEvents ==
    {AxisEv(a, v) : a \in {0, 1, 2}, v \in AxisValues}
    \cup {ButtonEv("JOYBUTTONDOWN", b, TRUE) : b \in {0, 1, 7, 2}}
    \cup {ButtonEv("JOYBUTTONUP", b, FALSE) : b \in {0, 1, 7, 2}}

JoyStep == \E ev \in JoyEvents : CallProcessInputEvents(ev)

NextJoy == JoyStep \/ CallStartFrame

SpecJoy == Init /\ [][NextJoy]_vars

\* C8: after an axis event with value v on axis a in {0, 1}, bit 2a of the
\* joystick mask is set iff v < -1500 and bit 2a+1 iff v > 1500; the two
\* direction bits of one axis are never both set.
C8_AxisBits ==
    /\ (lastOp.ev.type = "JOYAXISMOTION" /\ lastOp.ev.axis \in {0, 1})
          => /\ TestBit(joyState, 2 * lastOp.ev.axis) <=> lastOp.ev.value < -1500
             /\ TestBit(joyState, 2 * lastOp.ev.axis + 1) <=> lastOp.ev.value > 1500
    /\ \A a \in {0, 1} : ~(TestBit(joyState, 2 * a) /\ TestBit(joyState, 2 * a + 1))

\* C8 witness: axis 0 at -2000 has set bit 0 and left bit 1 clear, while
\* axis 1 is held in the positive direction.
C8_Witness ==
    /\ lastOp.ev = AxisEv(0, -2000)
    /\ TestBit(joyState, 0) /\ ~TestBit(joyState, 1)
    /\ TestBit(joyState, 3)

(***************************************************************************)
(* The event pump: the platform queues events, the host polls them or      *)
(* hands an event to the aggregator directly.                              *)
(***************************************************************************)
PumpEvents ==
    {QuitEv, OtherEv,
     KeyEv("KEYDOWN", "q", TRUE), KeyEv("KEYDOWN", "q", FALSE), KeyEv("KEYUP", "q", TRUE),
     KeyEv("KEYDOWN", "LEFT", FALSE), KeyEv("KEYUP", "LEFT", FALSE)}

PostStep == \E ev \in PumpEvents : Post(ev)

DirectStep == \E ev \in PumpEvents : CallProcessInputEvents(ev)

NextPump == PostStep \/ CallProcessEvents \/ DirectStep

SpecPump == Init /\ [][NextPump]_vars

\* C5: when a call of pollInputEvents has returned true, no event is left
\* in the platform queue.
C5_PollDrainsQueue ==
    (lastOp.op = "EVT_ProcessEvents" /\ ret) => queue = <<>>

IsCtrlQDown(ev) == ev.type = "KEYDOWN" /\ ev.sym = "q" /\ ev.ctrl

\* C9: applyEvent returns false exactly for a Ctrl+Q key-down;
\* pollInputEvents returns false exactly when the event it handled is the
\* quit event or a Ctrl+Q key-down, and true on an empty queue.
C9_FalseOnlyOnQuit ==
    /\ lastOp.op = "INP_ProcessInputEvents"
          => (~ret <=> IsCtrlQDown(lastOp.ev))
    /\ lastOp.op = "EVT_ProcessEvents"
          => (~ret <=> (lastOp.ev.type = "QUIT" \/ IsCtrlQDown(lastOp.ev)))

\* C9 witness: a poll that handled Ctrl+Q returned false after an earlier
\* key event had been applied.
C9_Witness ==
    /\ lastOp.op = "EVT_ProcessEvents"
    /\ IsCtrlQDown(lastOp.ev)
    /\ ~ret
    /\ TestBit(keyState, 0)

(***************************************************************************)
(* Mouse wheel: wheel events and reads of the mouse state.                 *)
(***************************************************************************)
WheelDeltas == {-1, 1, 2}

\* pointer positions in window pixels and button masks SDL reports
MousePositions == {<<80, 0>>, <<320, 240>>}

MouseButtonMasks == {0, 5}

WheelStep ==
    \E y \in WheelDeltas :
        /\ mouseWheel + y \in -MaxWheel .. MaxWheel
        /\ CallProcessInputEvents(WheelEv(y))

MouseReadStep ==
    \E p \in MousePositions, b \in MouseButtonMasks : CallGetMouseState(p[1], p[2], b)

NextMouse == WheelStep \/ MouseReadStep

SpecMouse == Init /\ [][NextMouse]_vars

\* the stored delta is the sum of the wheel deltas applied since the last read
C11_StoredIsSum == mouseWheel = wheelSum

\* a read returns that sum and leaves the stored delta at zero
C11_ReadStep ==
    lastOp'.op = "INP_GetMouseState" => ms'.wheel = wheelSum /\ mouseWheel' = 0

\* C11: the wheel value INP_GetMouseState returns is the sum of the y-deltas
\* of the wheel events applied since the previous read (or since start), and
\* the stored delta is zero right after every read, so a second read with no
\* wheel event in between returns 0.
C11_WheelDrainedOnRead == [](C11_StoredIsSum) /\ [][C11_ReadStep]_vars

\* a read has just returned a delta accumulated from several wheel events
C11_Witness ==
    lastOp.op = "INP_GetMouseState" /\ ms.wheel = MaxWheel /\ mouseWheel = 0

(***************************************************************************)
(* Display geometry: window resizes, virtual-size changes and presents.    *)
(***************************************************************************)
\* window sizes SDL_GetWindowSize reports
WindowSizes ==
    {<<640, 480>>, <<800, 600>>, <<600, 800>>, <<128, 128>>, <<164, 127>>,
     <<127, 164>>, <<333, 77>>, <<1, 1>>}

\* virtual sizes passed to GFX_SetBackBufferSize
VirtualSizes == {<<128, 128>>, <<160, 120>>, <<64, 128>>}

ResizeStep == \E sz \in WindowSizes : Resize(sz[1], sz[2])

SetBackBufferSizeStep == \E sz \in VirtualSizes : CallSetBackBufferSize(sz[1], sz[2])

NextDisplay == ResizeStep \/ SetBackBufferSizeStep \/ CallFlip

SpecDisplay == Init /\ [][NextDisplay]_vars

\* p <= q for the exact quotients p.a / p.b and q.a / q.b
LeQ(p, q) == p.a * q.b <= q.a * p.b

\* the exact rectangle size of the contract: (trunc(s * w_virt), trunc(s * h_virt))
\* for s = min(w_phys / w_virt, h_phys / h_virt), in exact arithmetic
ExactSize ==
    IF winx * screenHeight <= winy * screenWidth
    THEN <<winx, (winx * screenHeight) \div screenWidth>>
    ELSE <<(winy * screenWidth) \div screenHeight, winy>>

C12_ScaleIsMin ==
    LET xscale == [a |-> winx, b |-> screenWidth]
        yscale == [a |-> winy, b |-> screenHeight]
        s == getDisplayArea.scale
    IN  s \in {xscale, yscale} /\ LeQ(s, xscale) /\ LeQ(s, yscale)

C12_InsideAndCentered ==
    LET r == getDisplayArea
    IN  /\ r.x >= 0 /\ r.y >= 0 /\ r.x + r.w <= winx /\ r.y + r.h <= winy
        /\ (winx - r.x - r.w) - r.x \in -1 .. 1
        /\ (winy - r.y - r.h) - r.y \in -1 .. 1

C12_Example ==
    geometry = <<640, 480, 128, 128>>
        => /\ getDisplayArea.scale.a * 4 = 15 * getDisplayArea.scale.b
           /\ <<getDisplayArea.x, getDisplayArea.y>> = <<80, 0>>
           /\ <<getDisplayArea.w, getDisplayArea.h>> = <<480, 480>>

\* C12: for all positive window and virtual sizes getDisplayArea yields the
\* scale s = min(w_phys / w_virt, h_phys / h_virt) and a rectangle of size
\* (trunc(s * w_virt), trunc(s * h_virt)) that lies inside the window and is
\* centered in it within one pixel per axis; 640x480 with 128x128 gives
\* s = 3.75, origin (80, 0), size 480x480.
C12_LetterboxExact ==
    /\ C12_ScaleIsMin
    /\ <<getDisplayArea.w, getDisplayArea.h>> = ExactSize
    /\ C12_InsideAndCentered
    /\ C12_Example
    /\ lastOp.op = "GFX_Flip"
           => <<dr.w, dr.h>> = ExactSize /\ dr.x = getDisplayArea.x /\ dr.y = getDisplayArea.y

(***************************************************************************)
(* Round trip through the mapper: the pointer is put on the window pixel   *)
(* a virtual point is drawn at, and the mouse state is read back.          *)
(***************************************************************************)
\* the window sizes of the round trip, with the 128x128 virtual size
RoundTripSizes == {<<800, 600>>, <<600, 800>>, <<128, 128>>}

InitRoundTrip ==
    /\ InitStatics
    /\ \E sz \in RoundTripSizes : winx = sz[1] /\ winy = sz[2]
    /\ InitHist

\* the window pixel of a virtual point: rectangle origin plus the point
\* scaled by the scale factor, truncated
ToPhysical(v) ==
    LET r == getDisplayArea
    IN  <<r.x + DblTimesInt(r.scale, v[1]).floor, r.y + DblTimesInt(r.scale, v[2]).floor>>

\* the virtual points next to v
Neighbours(v) ==
    {w \in {<<v[1] + 1, v[2]>>, <<v[1] - 1, v[2]>>, <<v[1], v[2] + 1>>, <<v[1], v[2] - 1>>} :
        w[1] \in 0 .. (screenWidth - 1) /\ w[2] \in 0 .. (screenHeight - 1)}

\* the pointer moves onto a neighbouring virtual point and the host reads it
ProbeStep ==
    \E v \in Neighbours(probe) : \E p \in {ToPhysical(v)} :
        /\ INP_GetMouseState(p[1], p[2], 0)
        /\ UNCHANGED <<dr, thrown, tinfo, gfxVars>>
        /\ Record("INP_GetMouseState", NoEvent)
        /\ probe' = v
        /\ args' = <<>>

NextRoundTrip == ProbeStep

SpecRoundTrip == InitRoundTrip /\ [][NextRoundTrip]_vars

\* C13: with the 128x128 virtual size and a window of 800x600, 600x800 or
\* 128x128, mapping a virtual point to its window pixel and back through
\* scaleMouse recovers it within one pixel per axis, and exactly for the
\* exact-fit window 128x128.
C13_RoundTrip ==
    lastOp.op = "INP_GetMouseState"
        => /\ ms.x - probe[1] \in -1 .. 1
           /\ ms.y - probe[2] \in -1 .. 1
           /\ <<winx, winy>> = <<128, 128>> => <<ms.x, ms.y>> = probe

\* a point of the letterboxed 800x600 window has gone through the round
\* trip and came back one pixel off
C13_Witness ==
    /\ lastOp.op = "INP_GetMouseState"
    /\ <<winx, winy>> = <<800, 600>>
    /\ probe = <<127, 127>>
    /\ <<ms.x, ms.y>> = <<126, 126>>

(***************************************************************************)
(* Degenerate window: SDL_GetWindowSize reports a zero width or height.    *)
(***************************************************************************)
DegenerateSizes == {<<0, 480>>, <<640, 0>>, <<0, 0>>}

InitDegenerate ==
    /\ InitStatics
    /\ \E sz \in DegenerateSizes : winx = sz[1] /\ winy = sz[2]
    /\ InitHist

DegenerateFingerEvents ==
    {FingerEv(t, 0, TouchDen, 1) : t \in {"FINGERDOWN", "FINGERUP"}}

DegenerateFingerStep == \E ev \in DegenerateFingerEvents : CallProcessInputEvents(ev)

DegenerateReadStep == CallGetMouseState(5, 7, 0)

NextDegenerate == DegenerateFingerStep \/ DegenerateReadStep \/ CallEndFrame

SpecDegenerate == InitDegenerate /\ [][NextDegenerate]_vars

\* the calls that divide by the scale factor
UsesScale(op) ==
    \/ op.op = "INP_GetMouseState"
    \/ op.op = "INP_ProcessInputEvents" /\ IsFingerEv(op.ev) /\ op.ev.fingerId \in SlotIds

C14_FailStep ==
    ((winx = 0 \/ winy = 0) /\ UsesScale(lastOp'))
        => /\ thrown' = "InvalidGeometry"
           /\ UNCHANGED <<ms, mouseWheel, touchState, keyState, joyState, hatState,
                          simState>>

\* C14: with a window of zero width or height, every call that uses the
\* scale factor (INP_GetMouseState, the position conversion of a finger
\* event) fails with InvalidGeometry instead of dividing by a zero scale and
\* leaves the mouse, touch and mask state unchanged.
C14_DegenerateFails == [][C14_FailStep]_vars

(***************************************************************************)
(* Palette: selection, per-index overrides and restores.                   *)
(***************************************************************************)
\* the indices the host overrides and restores
OverrideIndices == {0, 3, 255}

\* the colours (r, g, b) it sets
OverrideColours == {<<10, 20, 30>>, <<255, 255, 255>>}

SelectStep == CallSelectPalette("pico8")

SetIndexStep ==
    \E i \in OverrideIndices, c \in OverrideColours : CallSetPaletteIndex(i, c[1], c[2], c[3])

RestoreIndexStep == \E i \in OverrideIndices : CallRestorePaletteIndex(i)

NextPalette == SelectStep \/ SetIndexStep \/ RestoreIndexStep \/ CallRestorePalette

SpecPalette == Init /\ [][NextPalette]_vars

\* every index but i keeps its working entry
OthersKept(i) == \A j \in PaletteIndices \ {i} : palette'[j] = palette[j]

C15_PaletteStep ==
    /\ lastOp'.op \in {"GFX_SetPaletteIndex", "GFX_RestorePaletteIndex", "GFX_RestorePalette"}
          => original_palette' = original_palette
    /\ lastOp'.op = "GFX_SetPaletteIndex" => OthersKept(args'[1])
    /\ lastOp'.op = "GFX_RestorePaletteIndex"
          => palette'[args'[1]] = original_palette[args'[1]] /\ OthersKept(args'[1])
    /\ lastOp'.op = "GFX_RestorePalette"
          => \A j \in PaletteIndices : palette'[j] = original_palette[j]

\* C15: set-index, restore-index and restore-all never modify the original
\* table; set-index changes only working[i]; restore-index makes working[i]
\* equal original[i] and changes no other entry; restore-all makes the
\* working table equal the original at all 256 indices (so selecting pico8,
\* overriding index 3 and restoring index 3 leaves working[3] = original[3]).
C15_PaletteRoundTrip == [][C15_PaletteStep]_vars

\* pico8 is selected, indices 0 and 3 were overridden and index 3 has just
\* been restored while index 0 keeps its override
C15_Witness ==
    /\ lastOp.op = "GFX_RestorePaletteIndex" /\ args = <<3>>
    /\ original_palette[3] = EntryPixel(Pico8Colours[4])
    /\ palette[3] = original_palette[3]
    /\ palette[0] = GFX_GetPixel(10, 20, 30)
    /\ palette[0] # original_palette[0]

(***************************************************************************)
(* Routing of finger events to touch slots (SpecTouch).                    *)
(***************************************************************************)
\* the step is a finger event with a non-negative identifier
IsRoutedFinger(op) ==
    op.op = "INP_ProcessInputEvents" /\ IsFingerEv(op.ev) /\ op.ev.fingerId >= 0

\* the flag a finger event of this type leaves set in its slot
FlagOf(type) == IF type = "FINGERUP" THEN JustReleased ELSE Pressed

\* slot n took the event: it holds the event's flag and converted position,
\* and every other slot is as before
SlotTookEvent(n, ev) ==
    /\ FlagOf(ev.type) \in touchState'[n].state
    /\ touchState[n].state \subseteq touchState'[n].state
    /\ <<touchState'[n].x, touchState'[n].y>> \in TouchPos(ev)
    /\ \A k \in SlotIds \ {n} : touchState'[k] = touchState[k]

C16_ModuloStep ==
    IsRoutedFinger(lastOp') => SlotTookEvent(lastOp'.ev.fingerId % TouchSlots, lastOp'.ev)

\* C16: a finger event with identifier f is routed to slot f mod 8: for
\* every f >= 0, f >= 8 included, it updates the position and flags of slot
\* f mod 8 and of no other slot.
C16_ModuloRouting == [][C16_ModuloStep]_vars

C16_RangeStep ==
    IsRoutedFinger(lastOp')
        => IF lastOp'.ev.fingerId < TouchSlots
           THEN SlotTookEvent(lastOp'.ev.fingerId, lastOp'.ev)
           ELSE touchState' = touchState

\* C16 as the code has it: a finger event with identifier f in 0..7 updates
\* the position and flags of slot f and of no other slot; an event with
\* f >= 8 is dropped and updates no slot.
C16_RangeRouting == [][C16_RangeStep]_vars

\* a finger-down with identifier 8 was just dropped: slot 0 (8 mod 8) is
\* still None while slot 7 holds a contact
C16_Witness ==
    /\ lastOp.op = "INP_ProcessInputEvents"
    /\ lastOp.ev.type = "FINGERDOWN" /\ lastOp.ev.fingerId = 8
    /\ SlotState(0) = None
    /\ Pressed \in SlotState(7)

(***************************************************************************)
(* Events of every kind, one after the other.                              *)
(***************************************************************************)
MixedEvents ==
    {KeyEv("KEYDOWN", "z", FALSE), KeyEv("KEYUP", "z", FALSE),
     KeyEv("KEYDOWN", "F11", FALSE), KeyEv("KEYDOWN", "q", TRUE),
     KeyEv("KEYDOWN", "t", TRUE), KeyEv("KEYDOWN", "r", TRUE),
     AxisEv(1, -2000),
     ButtonEv("JOYBUTTONDOWN", 0, TRUE),
     HatEv({"LEFT"}),
     FingerEv("FINGERDOWN", 1, TouchDen, 1), FingerEv("FINGERDOWN", -1, TouchDen, 1),
     WheelEv(1)}

MixedEventStep ==
    \E ev \in MixedEvents :
        /\ ev.type = "MOUSEWHEEL" => mouseWheel = 0
        /\ CallProcessInputEvents(ev)

NextEvents == MixedEventStep

SpecEvents == Init /\ [][NextEvents]_vars

\* masks a and b agree on every bit outside the set bits
SameExceptBits(a, b, bits) == \A n \in (0 .. 7) \ bits : TestBit(a, n) = TestBit(b, n)

\* the keyboard-mask bit of a key, if it has one
KeyBits(sym) ==
    IF sym = "LEFT" THEN {0} ELSE IF sym = "RIGHT" THEN {1}
    ELSE IF sym = "UP" THEN {2} ELSE IF sym = "DOWN" THEN {3}
    ELSE IF sym = "z" THEN {4} ELSE IF sym = "x" THEN {5}
    ELSE IF sym \in {"p", "RETURN"} THEN {6} ELSE IF sym = "ESCAPE" THEN {7} ELSE {}

IsHotkeyDown(ev) ==
    \/ IsKeyDown(ev, "F11")
    \/ ev.ctrl /\ (IsKeyDown(ev, "q") \/ IsKeyDown(ev, "t") \/ IsKeyDown(ev, "r"))

C17_EventStep ==
    LET ev == lastOp'.ev
        flags == <<reload_requested, debug_trace_state, fullscreen>>
    IN  lastOp'.op = "INP_ProcessInputEvents" =>
          /\ IsHotkeyDown(ev) => UNCHANGED <<keyState, joyState, hatState, simState>>
          /\ ev.type \in {"KEYDOWN", "KEYUP"} /\ ~IsHotkeyDown(ev)
                => /\ SameExceptBits(keyState', keyState, KeyBits(ev.sym))
                   /\ UNCHANGED <<joyState, hatState, simState, touchState, mouseWheel, flags>>
          /\ ev.type = "JOYAXISMOTION"
                => /\ SameExceptBits(joyState', joyState, {2 * ev.axis, 2 * ev.axis + 1})
                   /\ UNCHANGED <<keyState, hatState, simState, touchState, mouseWheel, flags>>
          /\ ev.type \in {"JOYBUTTONDOWN", "JOYBUTTONUP"}
                => /\ SameExceptBits(joyState', joyState, {4, 5, 6})
                   /\ UNCHANGED <<keyState, hatState, simState, touchState, mouseWheel, flags>>
          /\ ev.type = "JOYHATMOTION"
                => /\ SameExceptBits(hatState', hatState, {0, 1, 2, 3})
                   /\ UNCHANGED <<keyState, joyState, simState, touchState, mouseWheel, flags>>
          /\ IsFingerEv(ev)
                => /\ \A k \in SlotIds \ {ev.fingerId} : touchState'[k] = touchState[k]
                   /\ UNCHANGED <<keyState, joyState, hatState, simState, mouseWheel, flags>>
          /\ ev.type = "MOUSEWHEEL"
                => UNCHANGED <<keyState, joyState, hatState, simState, touchState, flags>>

\* C17: each raw event changes only the state it concerns: a key event at
\* most the keyboard-mask bit of its key, an axis event the two joystick
\* bits of its axis, a button event joystick bits 4..6, a hat event hat bits
\* 0..3, a touch event its own slot, a wheel event the wheel delta, each
\* leaving the other masks, the touch table, the wheel delta and the flags
\* alone; the hotkeys leave all four masks unchanged.
C17_EachEventOwnState == [][C17_EventStep]_vars

(***************************************************************************)
(* Blits of small back buffers, before and after a palette is selected.    *)
(***************************************************************************)
BlitWidths == 1 .. 3
BlitHeights == 1 .. 2

\* a ramp 1, 2, 3, ... and a flat buffer of colour 7
Buffers(w, h) == {[i \in 1 .. w * h |-> i], [i \in 1 .. w * h |-> 7]}

BlitStep ==
    \E w \in BlitWidths : \E h \in BlitHeights : \E buffer \in Buffers(w, h) :
        CallCopyBackBuffer(buffer, w, h)

NextBlit == BlitStep \/ SelectStep

SpecBlit == Init /\ [][NextBlit]_vars

C18_BlitStep ==
    LET buffer == args'[1]
        w == args'[2]
        h == args'[3]
    IN  lastOp'.op = "GFX_CopyBackBuffer" =>
          \/ thrown' = "SDL_LockTexture Error: " /\ tex' = tex
          \/ /\ \A y \in 0 .. h - 1 : \A x \in 0 .. w - 1 :
                    tex'[y][x] = palette[buffer[y * w + x + 1]]
             /\ \A y \in 0 .. h - 1 : \A x \in LoopColumns(w) :
                    /\ y * w + x \in 0 .. w * h - 1
                    /\ x < w
             /\ \A y \in TexRows : \A x \in TexCols :
                    x >= w => tex'[y][x] = tex[y][x]

\* C18: a blit of a w x h buffer sets destination pixel (x, y) to
\* working[buffer[y*w + x]] for every x < w, y < h, and for every w >= 1, odd
\* widths included, reads no source index outside 0 .. w*h - 1 and writes no
\* destination column >= w.
C18_BlitExact == [][C18_BlitStep]_vars

(***************************************************************************)
(* Touch queries between finger events.                                    *)
(***************************************************************************)
QueryFingerEvents ==
    {FingerEv(t, f, TouchDen, 1) : t \in {"FINGERDOWN", "FINGERUP"}, f \in {0, 7}}

QueryIndices == {-1, 0, 7, 8}

QueryFingerStep == \E ev \in QueryFingerEvents : CallProcessInputEvents(ev)

QueryStep == \E idx \in QueryIndices : CallGetTouchInfo(idx)

NextQuery == QueryFingerStep \/ QueryStep \/ CallSetSimState(4)

SpecQuery == Init /\ [][NextQuery]_vars

C19_QueryStep ==
    LET idx == args'[1]
    IN  lastOp'.op = "INP_GetTouchInfo" =>
          /\ idx \notin 0 .. 7
                => tinfo' = [x |-> 0, y |-> 0, state |-> None] /\ oob' = oob
          /\ idx \in 0 .. 7 => tinfo' = touchState[idx]

\* C19: INP_GetTouchInfo(idx) returns an empty (state None) record, without
\* an access outside or inside the touch table, for every idx outside 0..7,
\* and the current record of slot idx for idx in 0..7.
C19_IndexValidated == [][C19_QueryStep]_vars

C20_EndFrameStep ==
    \A f \in SlotIds :
        /\ lastOp.op = "INP_ProcessInputEvents"
        /\ lastOp.ev.type \in {"FINGERDOWN", "FINGERMOTION"}
        /\ lastOp.ev.fingerId = f
        /\ lastOp'.op = "HAL_EndFrame"
        => /\ Pressed \in touchState'[f].state
           /\ TestBit(INP_GetTouchMask', f)

\* C20: a contact that is still down is not lost at a frame boundary: when
\* the last event before HAL_EndFrame was a finger-down or finger-motion of a
\* slot, the slot has Pressed set after HAL_EndFrame and its bit is set in
\* INP_GetTouchMask, an earlier finger-up of the slot in the same frame
\* notwithstanding.
C20_ContactSurvivesFrame == [][C20_EndFrameStep]_vars


=============================================================================
